---- MODULE Spec2Model ----
(***************************************************************************)
(* Merkle tree of src/src/main.rs: Node::new_leaf, Node::new_parent,       *)
(* MerkleTree::new, MerkleTree::root_hash and MerkleTree::verify.          *)
(*                                                                         *)
(* Byte strings are sequences of units.  A unit is either one raw byte     *)
(* ([raw |-> b, pre |-> <<>>]) or the opaque 32-byte output of SHA-256 on  *)
(* a byte string s ([raw |-> -1, pre |-> s]).  Sha256 is therefore the     *)
(* free constructor on byte strings: it is collision free, and a digest    *)
(* is itself a byte string that can be concatenated and hashed again.      *)
(* Option<T> is a sequence of length 0 (None) or 1 (Some).                 *)
(***************************************************************************)
EXTENDS Integers, Sequences

VARIABLES data_blocks, pc, nodes, iterations, root, rh,
          vpc, data, proof, proof_path, i, current_hash, result, origin

vars == <<data_blocks, pc, nodes, iterations, root, rh,
          vpc, data, proof, proof_path, i, current_hash, result, origin>>

buildVars == <<data_blocks, pc, nodes, iterations, root>>
verifyVars == <<vpc, data, proof, proof_path, i, current_hash, result, origin>>

(* ------------------------------ bounds --------------------------------- *)
MaxBlocks == 5
MaxByte == 0
MaxCallBlocks == 3
MaxProofLen == 1

(* ------------------------------ values --------------------------------- *)
SeqUpTo(S, n) == UNION {[1..k -> S] : k \in 0..n}

Range(s) == {s[k] : k \in 1..Len(s)}

Byte(b) == [raw |-> b, pre |-> <<>>]

Blocks == {<<>>} \cup {<<Byte(b)>> : b \in 0..MaxByte}

Sha256(bytes) == << [raw |-> -1, pre |-> bytes] >>

(* ------------------------------ Node ----------------------------------- *)
new_leaf_prefixed(d) ==
    [hash |-> Sha256(<<Byte(0)>> \o d), left |-> <<>>, right |-> <<>>]

new_leaf(d) == [hash |-> Sha256(d), left |-> <<>>, right |-> <<>>]

new_parent(l, r) ==
    [hash |-> Sha256(l.hash \o r.hash), left |-> <<l>>, right |-> <<r>>]

(* ------------------------------ MerkleTree::new ------------------------ *)
Leaves(blocks) == [k \in 1..Len(blocks) |-> new_leaf(blocks[k])]

RECURSIVE NextLevelDuplicate(_)
NextLevelDuplicate(ns) ==
    IF Len(ns) = 0 THEN <<>>
    ELSE IF Len(ns) >= 2
         THEN <<new_parent(ns[1], ns[2])>>
              \o NextLevelDuplicate(SubSeq(ns, 3, Len(ns)))
         ELSE <<new_parent(ns[1], ns[1])>>

RECURSIVE NextLevelDropOdd(_)
NextLevelDropOdd(ns) ==
    IF Len(ns) >= 2
    THEN <<new_parent(ns[1], ns[2])>> \o NextLevelDropOdd(SubSeq(ns, 3, Len(ns)))
    ELSE <<>>

NextLevelChunksOfOne(ns) == ns

RECURSIVE NextLevel(_)
NextLevel(ns) ==
    IF Len(ns) = 0 THEN <<>>
    ELSE IF Len(ns) >= 2
         THEN <<new_parent(ns[1], ns[2])>> \o NextLevel(SubSeq(ns, 3, Len(ns)))
         ELSE <<ns[1]>>

RECURSIVE BuildLoop(_)
BuildLoop(ns) == IF Len(ns) > 1 THEN BuildLoop(NextLevel(ns)) ELSE ns

MerkleTree_new(blocks) ==
    IF blocks = <<>> THEN <<>> ELSE <<BuildLoop(Leaves(blocks))[1]>>

root_hash(r) == IF r = <<>> THEN <<>> ELSE <<r[1].hash>>

(* ------------------------------ MerkleTree::verify --------------------- *)
verify_reject_no_length(p, pp, r) == r = <<>>

verify_reject_no_root(p, pp, r) == Len(p) # Len(pp)

verify_reject(p, pp, r) == Len(p) # Len(pp) \/ r = <<>>

hash_step_swapped(cur, sibling_hash, flag) ==
    IF flag THEN Sha256(cur \o sibling_hash) ELSE Sha256(sibling_hash \o cur)

hash_step_right_only(cur, sibling_hash, flag) == Sha256(cur \o sibling_hash)

hash_step(cur, sibling_hash, flag) ==
    IF flag THEN Sha256(sibling_hash \o cur) ELSE Sha256(cur \o sibling_hash)

verify_compare(cur, r) == cur = r[1].hash

(* ------------------------------ prove (companion) ---------------------- *)
RECURSIVE ProveFrom(_, _)
ProveFrom(level, idx) ==
    IF Len(level) <= 1 THEN <<>>
    ELSE LET sib  == IF idx % 2 = 1 THEN idx + 1 ELSE idx - 1
             rest == ProveFrom(NextLevel(level), (idx + 1) \div 2)
         IN  IF sib > Len(level) THEN rest
             ELSE <<[hash |-> level[sib].hash, side |-> (idx % 2 = 0)]>> \o rest

prove(blocks, idx) ==
    LET path == ProveFrom(Leaves(blocks), idx)
    IN  [proof      |-> [k \in 1..Len(path) |-> path[k].hash],
         proof_path |-> [k \in 1..Len(path) |-> path[k].side]]

(* ------------------------------ caller inputs -------------------------- *)
RECURSIVE NodeHashes(_)
NodeHashes(opt) ==
    IF opt = <<>> THEN {}
    ELSE {opt[1].hash} \cup NodeHashes(opt[1].left) \cup NodeHashes(opt[1].right)

RECURSIVE ChildConcats(_)
ChildConcats(opt) ==
    IF opt = <<>> \/ opt[1].left = <<>> THEN {}
    ELSE {opt[1].left[1].hash \o opt[1].right[1].hash}
         \cup ChildConcats(opt[1].left) \cup ChildConcats(opt[1].right)

DataInputs == Blocks \cup ChildConcats(root)

SiblingInputs == NodeHashes(root) \cup {Sha256(b) : b \in Blocks}

(* ------------------------------ state machine -------------------------- *)
NoOrigin == [kind |-> "none", at |-> 0]

Init ==
    /\ data_blocks \in SeqUpTo(Blocks, MaxBlocks)
    /\ pc = "new"
    /\ nodes = <<>>
    /\ iterations = 0
    /\ root = <<>>
    /\ rh = [called |-> FALSE, value |-> <<>>]
    /\ vpc = "idle"
    /\ data = <<>>
    /\ proof = <<>>
    /\ proof_path = <<>>
    /\ i = 0
    /\ current_hash = <<>>
    /\ result = FALSE
    /\ origin = NoOrigin

NewEmpty ==
    /\ pc = "new"
    /\ data_blocks = <<>>
    /\ root' = <<>>
    /\ pc' = "built"
    /\ UNCHANGED <<data_blocks, nodes, iterations, rh>>
    /\ UNCHANGED verifyVars

NewLeaves ==
    /\ pc = "new"
    /\ data_blocks # <<>>
    /\ nodes' = Leaves(data_blocks)
    /\ pc' = "loop"
    /\ UNCHANGED <<data_blocks, iterations, root, rh>>
    /\ UNCHANGED verifyVars

Reverse(ns) == [k \in 1..Len(ns) |-> ns[Len(ns) + 1 - k]]

NewLevelUnordered ==
    /\ pc = "loop"
    /\ Len(nodes) > 1
    /\ nodes' \in {NextLevel(nodes), NextLevel(Reverse(nodes))}
    /\ iterations' = iterations + 1
    /\ UNCHANGED <<data_blocks, pc, root, rh>>
    /\ UNCHANGED verifyVars

NewLevel ==
    /\ pc = "loop"
    /\ Len(nodes) > 1
    /\ nodes' = NextLevel(nodes)
    /\ iterations' = iterations + 1
    /\ UNCHANGED <<data_blocks, pc, root, rh>>
    /\ UNCHANGED verifyVars

NewReturn ==
    /\ pc = "loop"
    /\ ~(Len(nodes) > 1)
    /\ IF Len(nodes) = 0
       THEN pc' = "panic" /\ UNCHANGED <<root, nodes>>
       ELSE pc' = "built" /\ root' = <<nodes[1]>> /\ nodes' = Tail(nodes)
    /\ UNCHANGED <<data_blocks, iterations, rh>>
    /\ UNCHANGED verifyVars

RootHash ==
    /\ pc = "built"
    /\ vpc = "idle"
    /\ rh' = [called |-> TRUE, value |-> root_hash(root)]
    /\ vpc' = "rh_done"
    /\ UNCHANGED buildVars
    /\ UNCHANGED <<data, proof, proof_path, i, current_hash, result, origin>>

VerifyEnter(d, p, pp, from) ==
    /\ pc = "built"
    /\ vpc \in {"idle", "done"}
    /\ data' = d
    /\ proof' = p
    /\ proof_path' = pp
    /\ origin' = from
    /\ i' = 0
    /\ IF verify_reject(p, pp, root)
       THEN vpc' = "done" /\ result' = FALSE /\ current_hash' = <<>>
       ELSE vpc' = "loop" /\ result' = FALSE /\ current_hash' = Sha256(d)
    /\ UNCHANGED buildVars
    /\ UNCHANGED rh

VerifyStep ==
    /\ vpc = "loop"
    /\ i < Len(proof)
    /\ IF i < Len(proof_path)
       THEN /\ current_hash' = hash_step(current_hash, proof[i + 1], proof_path[i + 1])
            /\ i' = i + 1
            /\ vpc' = vpc
       ELSE /\ vpc' = "panic"
            /\ UNCHANGED <<current_hash, i>>
    /\ UNCHANGED <<data, proof, proof_path, result, origin, rh>>
    /\ UNCHANGED buildVars

VerifyReturn ==
    /\ vpc = "loop"
    /\ ~(i < Len(proof))
    /\ IF root = <<>>
       THEN vpc' = "panic" /\ UNCHANGED result
       ELSE vpc' = "done" /\ result' = verify_compare(current_hash, root)
    /\ UNCHANGED <<data, proof, proof_path, i, current_hash, origin, rh>>
    /\ UNCHANGED buildVars

VerifyCall ==
    /\ vpc = "idle"
    /\ Len(data_blocks) <= MaxCallBlocks
    /\ \E d \in DataInputs :
       \E p \in SeqUpTo(SiblingInputs, MaxProofLen) :
       \E pp \in SeqUpTo(BOOLEAN, MaxProofLen) :
          VerifyEnter(d, p, pp, [kind |-> "caller", at |-> 0])

VerifyProved ==
    /\ vpc = "idle"
    /\ \E idx \in 1..Len(data_blocks) :
        LET pr == prove(data_blocks, idx)
        IN  VerifyEnter(data_blocks[idx], pr.proof, pr.proof_path,
                        [kind |-> "proved", at |-> idx])

VerifyMutData ==
    /\ vpc = "done" /\ result
    /\ \E d \in DataInputs \ {data} :
          VerifyEnter(d, proof, proof_path, [kind |-> "mutData", at |-> 0])

VerifyMutSibling ==
    /\ vpc = "done" /\ result
    /\ \E k \in 1..Len(proof) : \E h \in SiblingInputs \ {proof[k]} :
          VerifyEnter(data, [proof EXCEPT ![k] = h], proof_path,
                      [kind |-> "mutSibling", at |-> k])

VerifyMutFlag ==
    /\ vpc = "done" /\ result
    /\ \E k \in 1..Len(proof_path) :
          VerifyEnter(data, proof, [proof_path EXCEPT ![k] = ~proof_path[k]],
                      [kind |-> "mutFlag", at |-> k])

CallerReturn ==
    /\ vpc \in {"done", "rh_done"}
    /\ vpc' = "idle"
    /\ rh' = [called |-> FALSE, value |-> <<>>]
    /\ data' = <<>>
    /\ proof' = <<>>
    /\ proof_path' = <<>>
    /\ i' = 0
    /\ current_hash' = <<>>
    /\ result' = FALSE
    /\ origin' = NoOrigin
    /\ UNCHANGED buildVars

Next ==
    \/ NewEmpty
    \/ NewLeaves
    \/ NewLevel
    \/ NewReturn
    \/ RootHash
    \/ VerifyCall
    \/ VerifyProved
    \/ VerifyMutData
    \/ VerifyMutSibling
    \/ VerifyMutFlag
    \/ VerifyStep
    \/ VerifyReturn
    \/ CallerReturn

Spec == Init /\ [][Next]_vars

(* Construction alone.  MerkleTree::new is a sequential function that runs  *)
(* to completion once called, hence weak fairness on its steps.             *)
BuildNext ==
    \/ NewEmpty
    \/ NewLeaves
    \/ NewLevel
    \/ NewReturn

BuildSpec == Init /\ [][BuildNext]_vars /\ WF_vars(BuildNext)

(* ------------------------------ properties ----------------------------- *)
(* Reference definitions used by the properties, written from the hash     *)
(* function alone.                                                         *)
Pair(l, r) == Sha256(l \o r)

RECURSIVE Replay(_, _, _, _)
Replay(d, p, pp, k) ==
    IF k = 0 THEN Sha256(d)
    ELSE LET c == Replay(d, p, pp, k - 1)
         IN  IF pp[k] THEN Pair(p[k], c) ELSE Pair(c, p[k])

ExpectedLevel(ns) ==
    [j \in 1..((Len(ns) + 1) \div 2) |->
        IF 2 * j <= Len(ns)
        THEN [hash  |-> Pair(ns[2 * j - 1].hash, ns[2 * j].hash),
              left  |-> <<ns[2 * j - 1]>>,
              right |-> <<ns[2 * j]>>]
        ELSE ns[2 * j - 1]]

(* C1: verify accepts the sibling path of every leaf of the built tree,    *)
(* replayed on that leaf's block.                                          *)
RoundTripSound ==
    (vpc = "done" /\ origin.kind = "proved") => result = TRUE

RoundTripWitness ==
    /\ vpc = "done"
    /\ origin.kind = "proved"
    /\ result = TRUE
    /\ Len(proof) >= 1
    /\ Len(proof) < iterations

(* C2: whatever verify accepts is one of the blocks the tree was built     *)
(* from.                                                                   *)
MembershipSound ==
    (vpc = "done" /\ result = TRUE) => data \in Range(data_blocks)

(* C3: every loop iteration turns the level into one parent per            *)
(* left-to-right pair followed by the unchanged trailing odd node; three   *)
(* blocks give pair(pair(H(a),H(b)),H(c)) and four blocks give             *)
(* pair(pair(H(a),H(b)),pair(H(c),H(d))).                                  *)
LevelRuleStep ==
    /\ (iterations' # iterations) => nodes' = ExpectedLevel(nodes)
    /\ (pc = "loop" /\ pc' = "built" /\ Len(data_blocks) = 3) =>
          root'[1].hash =
              Pair(Pair(Sha256(data_blocks[1]), Sha256(data_blocks[2])),
                   Sha256(data_blocks[3]))
    /\ (pc = "loop" /\ pc' = "built" /\ Len(data_blocks) = 4) =>
          root'[1].hash =
              Pair(Pair(Sha256(data_blocks[1]), Sha256(data_blocks[2])),
                   Pair(Sha256(data_blocks[3]), Sha256(data_blocks[4])))

LevelRule == [][LevelRuleStep]_vars

LevelRuleWitness ==
    /\ pc = "built"
    /\ Len(data_blocks) = 3
    /\ iterations = 2
    /\ root[1].right[1].hash = Sha256(data_blocks[3])
    /\ root[1].right[1].left = <<>>

(* C4: the tree of a single block b has the leaf of b as its root, with    *)
(* hash H(b) and no children, and the build loop is never entered.         *)
SingleBlockIdentity ==
    Len(data_blocks) = 1 =>
        /\ iterations = 0
        /\ pc = "built" =>
              /\ root # <<>>
              /\ root[1].hash = Sha256(data_blocks[1])
              /\ root[1].left = <<>>
              /\ root[1].right = <<>>
        /\ vpc = "rh_done" => rh.value = <<Sha256(data_blocks[1])>>

SingleBlockWitness ==
    /\ Len(data_blocks) = 1
    /\ pc = "built"
    /\ vpc = "rh_done"
    /\ rh.called

(* C5: replacing the content of one block by different content changes     *)
(* the root hash.  The root is read when the constructor has returned and  *)
(* no call is in progress; calls leave it unchanged.                       *)
ChangeSensitivity ==
    (pc = "built" /\ vpc = "idle") =>
        \A idx \in 1..Len(data_blocks) :
            \A b \in Blocks \ {data_blocks[idx]} :
                root_hash(MerkleTree_new([data_blocks EXCEPT ![idx] = b]))
                    # root_hash(root)

ChangeSensitivityWitness ==
    /\ pc = "built"
    /\ Len(data_blocks) = 3
    /\ root_hash(MerkleTree_new([data_blocks EXCEPT ![3] = <<>>])) # root_hash(root)
    /\ data_blocks[3] # <<>>

(* C6: the root hash a construction run ends with is a function of the     *)
(* block sequence alone, so two runs on the same sequence agree.           *)
Determinism ==
    (pc = "built" /\ vpc = "idle") => root_hash(root) = root_hash(MerkleTree_new(data_blocks))

DeterminismWitness ==
    /\ pc = "built"
    /\ Len(data_blocks) = 4
    /\ iterations = 2
    /\ data_blocks[1] # data_blocks[4]

(* C7: the tree of the empty sequence has no root, root_hash gives None    *)
(* and verify gives false for all arguments, without a panic.              *)
EmptyTree ==
    data_blocks = <<>> =>
        /\ pc # "panic"
        /\ root = <<>>
        /\ vpc \notin {"loop", "panic"}
        /\ vpc = "rh_done" => rh.value = <<>>
        /\ vpc = "done" => result = FALSE

EmptyTreeWitness ==
    /\ data_blocks = <<>>
    /\ pc = "built"
    /\ vpc = "done"
    /\ origin.kind = "caller"
    /\ Len(proof) = 1
    /\ Len(proof_path) = 1
    /\ result = FALSE

(* C8 as stated: after replacing the data, one sibling hash or one side    *)
(* flag of accepted arguments, verify returns false.                       *)
ProofRejectionAnyFlag ==
    (vpc = "done" /\ origin.kind \in {"mutData", "mutSibling", "mutFlag"})
        => result = FALSE

(* C8 amended: after replacing the data or one sibling hash of accepted    *)
(* arguments, or flipping one side flag at a level whose sibling hash      *)
(* differs from the hash carried into that level, verify returns false.    *)
ProofRejection ==
    (vpc = "done" /\ origin.kind \in {"mutData", "mutSibling", "mutFlag"})
        => \/ result = FALSE
           \/ /\ origin.kind = "mutFlag"
              /\ proof[origin.at] = Replay(data, proof, proof_path, origin.at - 1)

ProofRejectionWitness ==
    /\ vpc = "done"
    /\ origin.kind = "mutFlag"
    /\ Len(proof) >= 2
    /\ proof[origin.at] # Replay(data, proof, proof_path, origin.at - 1)
    /\ result = FALSE

(* C9: verify returns true exactly when the tree has a root, proof and     *)
(* proof_path have the same length and the replay of the proof from        *)
(* H(data) ends at the root hash; it never indexes proof_path out of       *)
(* range.                                                                  *)
VerifyEqualsReplay ==
    /\ vpc # "panic"
    /\ vpc = "done" =>
          result = (/\ root # <<>>
                    /\ Len(proof) = Len(proof_path)
                    /\ Replay(data, proof, proof_path, Len(proof)) = root[1].hash)

VerifyEqualsReplayWitness ==
    /\ vpc = "done"
    /\ origin.kind = "caller"
    /\ Len(proof) = 1
    /\ proof_path = <<TRUE>>
    /\ result = TRUE

(* C10: construction terminates; each iteration replaces a level of k > 1  *)
(* nodes by ceil(k/2) nodes, the level is never empty, and the loop exits *)
(* with exactly one node, which becomes the root.                          *)
TerminationStep ==
    /\ (iterations' # iterations) =>
          /\ Len(nodes) > 1
          /\ Len(nodes') = (Len(nodes) + 1) \div 2
    /\ (pc = "loop" /\ pc' # "loop") =>
          /\ pc' = "built"
          /\ Len(nodes) = 1
          /\ root' = <<nodes[1]>>

Termination ==
    /\ (pc = "new") ~> (pc = "built")
    /\ [](pc = "loop" => Len(nodes) >= 1)
    /\ [][TerminationStep]_vars

TerminationWitness ==
    /\ pc = "built"
    /\ Len(data_blocks) = 5
    /\ iterations = 3
    /\ root # <<>>

====
